---- MODULE Spec2Model ----
(***************************************************************************)
(* A model of the Site-Report backend (src/Backend/index.js, the second,   *)
(* current server of the file: lines 529-1424).                            *)
(*                                                                         *)
(* Texts (AI report, photo description) are sequences of lexemes: a        *)
(* 'Photo N:' marker, a field label, a word, a blank, a line break or an   *)
(* asterisk. Every regular expression of the code matches whole lexemes.   *)
(* JavaScript values are tagged records: Null, Str(text), Num(digits).     *)
(***************************************************************************)
EXTENDS Integers, Sequences, FiniteSets, TLC

(* ------------------------------ bounds -------------------------------- *)

\* reports the store holds at most
MaxReports == 2
\* photos of an assembled report whose grids are looked at
MaxGridPhotos == 10
\* photos of an assembled report whose text is looked at
MaxTextPhotos == 3
\* 'Photo N:' sections of an assembled text
MaxSections == 3
\* labelled fields of one section of an assembled text
MaxFields == 2
\* analyze requests awaiting the generator at the same time
MaxPending == 1
\* documents written by PDF and email requests
MaxDocuments == 2
\* PDF and email requests that are between their awaits at one time
MaxTransfers == 2

(* --------------------------- JavaScript values ------------------------ *)

Null == [tag |-> "null"]

Str(s) == [tag |-> "string", val |-> s]

\* a number other than 0, written with these digits
Num(digits) == [tag |-> "number", val |-> digits]

\* JavaScript truthiness of null, of a string and of a number other than 0:
\* '' and null are falsy
Truthy(v) == (v.tag = "string" /\ v.val # <<>>) \/ v.tag = "number"

(* ------------------------------- lexemes ------------------------------ *)

PhotoMarkers == {"Photo 1:", "Photo 2:", "Photo 3:", "photo 7:"}

ProblemLabel == "Problem Description:"
SolutionLabel == "Recommended Solution:"
PriorityLabel == "Priority Level:"
CostLabel == "Estimated Cost Range:"
SafetyLabel == "Safety Concerns:"

FieldLabels == <<ProblemLabel, SolutionLabel, PriorityLabel, CostLabel, SafetyLabel>>

LabelSet == {FieldLabels[i] : i \in 1..Len(FieldLabels)}

Whitespace == {" ", "\n"}

Asterisk == "*"

\* text.replace(/\*/g, '')
RECURSIVE StripAsterisks(_)
StripAsterisks(s) ==
  IF s = <<>> THEN <<>>
  ELSE IF Head(s) = Asterisk THEN StripAsterisks(Tail(s))
       ELSE <<Head(s)>> \o StripAsterisks(Tail(s))

\* String.prototype.trim
RECURSIVE TrimLeft(_)
TrimLeft(s) ==
  IF s # <<>> /\ Head(s) \in Whitespace THEN TrimLeft(Tail(s)) ELSE s

RECURSIVE TrimRight(_)
TrimRight(s) ==
  IF s # <<>> /\ s[Len(s)] \in Whitespace
  THEN TrimRight(SubSeq(s, 1, Len(s) - 1)) ELSE s

Trim(s) == TrimRight(TrimLeft(s))

(* ------------------------------- state -------------------------------- *)

VARIABLES
  reports,   \* the in-memory store: the array `reports`
  now,       \* Date.now()
  pending,   \* per report (its place in the store): the analyze requests
             \* that await generateReportContent
  lastResp,  \* the last HTTP response sent
  writes,    \* history, per report: which handler wrote aiReport last, and
             \* whether that write raced with the other handler
  disk,      \* the uploaded image files: which are gone, which do not decode
  doc,       \* the document the last run of generateFormattedPDF wrote
  documents, \* history: the documents generateFormattedPDF has written
  tmp,       \* the temporary files report-<id>.pdf next to the server
  transfers  \* the PDF and email requests between their awaits

vars == <<reports, now, pending, lastResp, writes, disk, doc, documents, tmp, transfers>>

\* every upload is in place and decodes
IntactDisk == [missing |-> {}, unreadable |-> {}]

NoDoc == [written |-> FALSE]

\* the ids the clock gives, each naming one temporary path report-<id>.pdf
Paths == 1..(MaxReports + 1)

\* no file at a temporary path; `by` is the request that opened a file, 0 for
\* a request that ran without another one in between
NoFile == [by |-> 0, state |-> "none"]

NoFiles == [id \in Paths |-> NoFile]

\* a request slot that holds no request
NoTransfer == [op |-> "none", id |-> 0, pc |-> "idle", handed |-> "none"]

NoTransfers == [r \in 1..MaxTransfers |-> NoTransfer]

RECURSIVE Sum(_, _)
Sum(f, n) == IF n = 0 THEN 0 ELSE f[n] + Sum(f, n - 1)

\* the analyze requests in flight, over all reports
NumPending == Sum(pending, MaxReports)

NoResp == [op |-> "none", status |-> 0, body |-> Null]

\* reports.find(r => r.id === req.params.id): the first match, 0 when none
FindReport(id) ==
  LET hits == {i \in 1..Len(reports) : reports[i].id = id}
  IN IF hits = {} THEN 0 ELSE CHOOSE i \in hits : \A j \in hits : i <= j

(* --------------------------- sample texts ----------------------------- *)

\* what Gemini's response.text() may hold: two sections with bold markup
RawTwoSections ==
  <<Asterisk, Asterisk, "Kitchen Issues", Asterisk, Asterisk, "\n",
    "Photo 1:", " ", ProblemLabel, " ", "Cracked tile.", "\n",
    "Photo 2:", " ", ProblemLabel, " ", "Leaking pipe.">>

GenRaw == {RawTwoSections}

\* a text that follows no convention at all
RawNoSections == <<"Nothing to report.">>

\* what a user may type into the preview's text box
EditThreeSections ==
  <<"Edited", "\n", "Photo 1:", " ", "a", "\n", "Photo 2:", " ", "b", "\n",
    "Photo 3:", " ", "c">>

EditTexts == {<<>>, EditThreeSections}

(* --------------------------- collaborators ---------------------------- *)

\* what generateReportContent resolves with when Gemini answered `raw`
generateReportContent(raw) == Str(StripAsterisks(raw))

GenResults == {generateReportContent(raw) : raw \in GenRaw}

(* ---------------------- POST /api/reports (create) -------------------- *)

\* upload.fields([{name:'photos', maxCount:20}, {name:'voices', maxCount:20}])
MaxCount == 20

\* parsedDescriptions[idx] || {} ; desc.type || 'text' ; desc.description || ''
ItemType(desc) == IF desc.type = "" THEN "text" ELSE desc.type

\* findVoiceFile(desc.voiceFile): is there an uploaded voice of that name
findVoiceFile(req, name) == name \in req.voices

\* the loop's early return: some voice item names a file that was not uploaded
MissingAudio(req) ==
  \E idx \in 1..req.nPhotos :
    LET desc == req.photoDescriptions[idx]
    IN ItemType(desc) = "voice" /\ desc.voiceFile # ""
       /\ ~findVoiceFile(req, desc.voiceFile)

\* one pass of the loop: the stored photo of item idx; stt[name] is what
\* speechToText gives for that audio file: "fail" (it threw) or the text
Photo(req, stt, idx) ==
  LET desc == req.photoDescriptions[idx]
      type == ItemType(desc)
      transcribed == type = "voice" /\ desc.voiceFile # "" /\ stt[desc.voiceFile] # "fail"
  IN [path |-> idx,
      description |-> IF transcribed THEN stt[desc.voiceFile] ELSE desc.description,
      type |-> type,
      transcription |-> IF transcribed THEN stt[desc.voiceFile] ELSE <<>>]

\* a variant that requires the date as it requires the other job fields
CreateStatusDateRequired(req) ==
  IF req.nPhotos > MaxCount \/ Cardinality(req.voices) > MaxCount
    THEN 500
  ELSE IF req.jobName = "" \/ req.clientName = "" \/ req.address = "" \/ req.date = ""
    THEN 400
  ELSE IF req.nPhotos < 1 \/ req.nPhotos > 20 THEN 400
  ELSE IF ~req.isArray \/ Len(req.photoDescriptions) # req.nPhotos THEN 400
  ELSE IF MissingAudio(req) THEN 400
  ELSE 201

\* the status the handler answers with
CreateStatus(req) ==
  IF req.nPhotos > MaxCount \/ Cardinality(req.voices) > MaxCount
    THEN 500   \* multer's LIMIT_UNEXPECTED_FILE, passed to the error middleware
  ELSE IF req.jobName = "" \/ req.clientName = "" \/ req.address = "" THEN 400
  ELSE IF req.nPhotos < 1 \/ req.nPhotos > 20 THEN 400
  ELSE IF ~req.isArray \/ Len(req.photoDescriptions) # req.nPhotos THEN 400
  ELSE IF MissingAudio(req) THEN 400
  ELSE 201

NewReport(req, stt) ==
  [id |-> now,
   jobName |-> req.jobName,
   clientName |-> req.clientName,
   address |-> req.address,
   date |-> IF req.date = "" THEN "today" ELSE req.date,
   photos |-> [idx \in 1..req.nPhotos |-> Photo(req, stt, idx)],
   status |-> "draft",
   createdAt |-> now,
   aiReport |-> Null]

PostReports(req, stt) ==
  LET status == CreateStatus(req)
  IN /\ status = 201 => Len(reports) < MaxReports
     /\ reports' = IF status = 201 THEN Append(reports, NewReport(req, stt)) ELSE reports
     /\ lastResp' = [op |-> "create", status |-> status, body |-> Null]
     /\ UNCHANGED <<now, pending, writes, disk, doc, documents, tmp, transfers>>

\* the clock advances; only equality of ids matters, so one value per report
\* and one more are all the values needed
Tick ==
  /\ now <= Len(reports)
  /\ now' = now + 1
  /\ UNCHANGED <<reports, pending, lastResp, writes, disk, doc, documents, tmp, transfers>>

(* ------------------------ GET /api/reports/:id ----------------------- *)

\* a JSON object in a response body
Obj(o) == [tag |-> "object", val |-> o]

\* a variant that answers an id it does not find with an empty 200
GetReportAnswersEmpty(id) ==
  LET i == FindReport(id)
  IN /\ lastResp' = [op |-> "get", status |-> 200,
                     body |-> IF i = 0 THEN Null ELSE Obj(reports[i])]
     /\ UNCHANGED <<reports, now, pending, writes, disk, doc, documents, tmp, transfers>>

\* reports.find; 404 when there is none; res.json(report)
GetReport(id) ==
  LET i == FindReport(id)
  IN /\ lastResp' = IF i = 0 THEN [op |-> "get", status |-> 404, body |-> Null]
                    ELSE [op |-> "get", status |-> 200, body |-> Obj(reports[i])]
     /\ UNCHANGED <<reports, now, pending, writes, disk, doc, documents, tmp, transfers>>

(* ------------------- POST /api/reports/:id/analyze -------------------- *)

\* the handler up to its await: lookup, the already-analyzed guard, the call
PostAnalyze(id, force) ==
  LET i == FindReport(id)
  IN /\ IF i = 0
        THEN /\ lastResp' = [op |-> "analyze", status |-> 404, body |-> Null]
             /\ UNCHANGED <<reports, now, pending, writes, disk, doc, documents, tmp, transfers>>
        ELSE IF Truthy(reports[i].aiReport) /\ ~force
        THEN /\ lastResp' = [op |-> "analyze", status |-> 200, body |-> reports[i].aiReport]
             /\ UNCHANGED <<reports, now, pending, writes, disk, doc, documents, tmp, transfers>>
        ELSE /\ NumPending < MaxPending
             /\ pending' = [pending EXCEPT ![i] = @ + 1]
             /\ UNCHANGED <<reports, now, lastResp, writes, disk, doc, documents, tmp, transfers>>

\* a variant that checks the already-analyzed guard again after the await and
\* keeps a text stored in the meantime
AnalyzeResolveKeepsStored(i, raw) ==
  /\ pending[i] > 0
  /\ LET aiReport == generateReportContent(raw)
         kept == Truthy(reports[i].aiReport)
     IN /\ reports' = IF kept THEN reports
                      ELSE [reports EXCEPT ![i].aiReport = aiReport]
        /\ lastResp' = [op |-> "analyze", status |-> 200,
                        body |-> IF kept THEN reports[i].aiReport ELSE aiReport]
  /\ pending' = [pending EXCEPT ![i] = @ - 1]
  /\ writes' = [writes EXCEPT ![i] =
       IF @ = "edit during analyze" THEN "analyze over edit" ELSE "analyze"]
  /\ UNCHANGED <<now, disk, doc, documents, tmp, transfers>>

\* generateReportContent resolved: report.aiReport = aiReport; res.json
AnalyzeResolve(i, raw) ==
  /\ pending[i] > 0
  /\ LET aiReport == generateReportContent(raw)
     IN /\ reports' = [reports EXCEPT ![i].aiReport = aiReport]
        /\ lastResp' = [op |-> "analyze", status |-> 200, body |-> aiReport]
  /\ pending' = [pending EXCEPT ![i] = @ - 1]
  /\ writes' = [writes EXCEPT ![i] =
       IF @ = "edit during analyze" THEN "analyze over edit" ELSE "analyze"]
  /\ UNCHANGED <<now, disk, doc, documents, tmp, transfers>>

\* a variant whose catch also resets the report's text
AnalyzeRejectClears(i) ==
  /\ pending[i] > 0
  /\ reports' = [reports EXCEPT ![i].aiReport = Null]
  /\ lastResp' = [op |-> "analyze", status |-> 500, body |-> Null]
  /\ pending' = [pending EXCEPT ![i] = @ - 1]
  /\ UNCHANGED <<now, writes, disk, doc, documents, tmp, transfers>>

\* generateReportContent threw: the catch answers 500
AnalyzeReject(i) ==
  /\ pending[i] > 0
  /\ lastResp' = [op |-> "analyze", status |-> 500, body |-> Null]
  /\ pending' = [pending EXCEPT ![i] = @ - 1]
  /\ UNCHANGED <<reports, now, writes, disk, doc, documents, tmp, transfers>>

(* ----------------------- PATCH /api/reports/:id ----------------------- *)

\* names every object inherits from Object.prototype: `key in report` holds
\* for them as well, and an assignment makes them fields of the report itself
InheritedNames == {"toString", "constructor"}

\* a variant that tests `report[key]` (a value) where the code tests
\* `key in report` (a name)
ApplyPatchIfSet(report, body) ==
  [key \in DOMAIN report |->
     IF key \in DOMAIN body /\ report[key] # Null THEN body[key] ELSE report[key]]

\* Object.keys(req.body).forEach(key => { if (key in report) report[key] = ... })
ApplyPatch(report, body) ==
  [key \in DOMAIN report \cup (DOMAIN body \cap InheritedNames) |->
     IF key \in DOMAIN body THEN body[key] ELSE report[key]]

PatchReport(id, body) ==
  LET i == FindReport(id)
  IN IF i = 0
     THEN /\ lastResp' = [op |-> "patch", status |-> 404, body |-> Null]
          /\ UNCHANGED <<reports, now, pending, writes, disk, doc, documents, tmp, transfers>>
     ELSE /\ reports' = [reports EXCEPT ![i] = ApplyPatch(reports[i], body)]
          /\ lastResp' = [op |-> "patch", status |-> 200, body |-> Null]
          /\ writes' = [writes EXCEPT ![i] =
               IF "aiReport" \notin DOMAIN body THEN @
               ELSE IF pending[i] > 0 THEN "edit during analyze" ELSE "edit"]
          /\ UNCHANGED <<now, pending, disk, doc, documents, tmp, transfers>>

(* ----------------------- generateFormattedPDF ------------------------- *)

Min(S) == CHOOSE x \in S : \A y \in S : x <= y

RECURSIVE Sorted(_)
Sorted(S) == IF S = {} THEN <<>> ELSE <<Min(S)>> \o Sorted(S \ {Min(S)})

\* `Photo ${idx + 1}:` and `Photo ${idx + 1}`
PhotoHeader(number) == "Photo " \o ToString(number) \o ":"

PhotoCaption(number) == "Photo " \o ToString(number)

\* the number of characters of a text
RECURSIVE CharLen(_)
CharLen(s) == IF s = <<>> THEN 0 ELSE Len(Head(s)) + CharLen(Tail(s))

\* report.aiReport.split('\n')[0].trim()
FirstLine(text) ==
  LET breaks == {p \in 1..Len(text) : text[p] = "\n"}
  IN Trim(SubSeq(text, 1, IF breaks = {} THEN Len(text) ELSE Min(breaks) - 1))

\* firstLine.length > 10
TitleMinLength == 10

ReportTitle(report) ==
  LET fallback == IF report.jobName = "" THEN <<"Property Inspection Report">>
                  ELSE <<report.jobName>>
  IN IF ~Truthy(report.aiReport) THEN fallback
     ELSE LET firstLine == FirstLine(report.aiReport.val)
          IN IF firstLine # <<>> /\ CharLen(firstLine) > TitleMinLength
             THEN firstLine ELSE fallback

\* report.photos.slice(0, 9): the first page holds nine photos, three a row
FirstPagePhotos == 9

PhotosPerRow == 3

\* a variant without the fs.existsSync test: drawing a file that is gone
\* throws like drawing one that does not decode
GridCellDrawsBlindly(photo, number, count, fs) ==
  [caption |-> PhotoCaption(number),
   row |-> (count - 1) \div PhotosPerRow,
   col |-> (count - 1) % PhotosPerRow,
   content |->
     IF photo.path \in fs.missing \cup fs.unreadable
       THEN [kind |-> "placeholder", text |-> "Error loading photo"]
     ELSE [kind |-> "image", path |-> photo.path]]

\* one cell of a photo grid: the image, or the placeholder of a file that is
\* gone, or the placeholder of a file doc.image threw on; then the caption
GridCell(photo, number, count, fs) ==
  [caption |-> PhotoCaption(number),
   row |-> (count - 1) \div PhotosPerRow,
   col |-> (count - 1) % PhotosPerRow,
   content |->
     IF photo.path \in fs.missing
       THEN [kind |-> "placeholder", text |-> "Photo not available"]
     ELSE IF photo.path \in fs.unreadable
       THEN [kind |-> "placeholder", text |-> "Error loading photo"]
     ELSE [kind |-> "image", path |-> photo.path]]

\* firstPagePhotos.forEach((photo, idx) => ...)
FirstPageGrid(photos, fs) ==
  [idx \in 1..(IF Len(photos) < FirstPagePhotos THEN Len(photos) ELSE FirstPagePhotos) |->
     GridCell(photos[idx], idx, idx, fs)]

\* a variant that numbers the cells of the second grid from 1 again
AdditionalGridFromOne(photos, fs) ==
  IF Len(photos) > FirstPagePhotos
  THEN [idx \in 1..(Len(photos) - FirstPagePhotos) |->
          GridCell(photos[idx + FirstPagePhotos], idx, idx, fs)]
  ELSE <<>>

\* remainingPhotos.forEach((photo, idx) => ...), actualIdx = idx + 9
AdditionalGrid(photos, fs) ==
  IF Len(photos) > FirstPagePhotos
  THEN [idx \in 1..(Len(photos) - FirstPagePhotos) |->
          GridCell(photos[idx + FirstPagePhotos], idx + FirstPagePhotos, idx, fs)]
  ELSE <<>>

\* [...report.aiReport.matchAll(photoPattern)] and the substring(...).trim()
\* of each match up to the next one
ParseSections(aiReport) ==
  IF ~Truthy(aiReport) THEN <<>>
  ELSE LET text == aiReport.val
           matches == Sorted({p \in 1..Len(text) : text[p] \in PhotoMarkers})
       IN [i \in 1..Len(matches) |->
             Trim(SubSeq(text, matches[i],
                         IF i < Len(matches) THEN matches[i + 1] - 1 ELSE Len(text)))]

\* photo.description || 'No description provided.'
FallbackSection(photo, idx) ==
  <<PhotoHeader(idx), "\n">>
  \o (IF photo.description = <<>> THEN <<"No description provided.">>
      ELSE photo.description)

\* a variant that also fills in a section for each photo the text has none for
PhotoSectionsPadded(report) ==
  LET parsed == ParseSections(report.aiReport)
  IN [idx \in 1..Len(report.photos) |->
        IF idx <= Len(parsed) THEN parsed[idx]
        ELSE FallbackSection(report.photos[idx], idx)]

\* the sections the breakdown uses: the parsed ones, or, when there is none,
\* one made of each photo's description
PhotoSections(report) ==
  LET parsed == ParseSections(report.aiReport)
  IN IF parsed = <<>> /\ Len(report.photos) > 0
     THEN [idx \in 1..Len(report.photos) |-> FallbackSection(report.photos[idx], idx)]
     ELSE parsed

\* a variant that looks the section up by the number its marker carries
SectionByWrittenNumber(photoSections, idx) ==
  LET hits == {k \in 1..Len(photoSections) :
                 photoSections[k] # <<>> /\ Head(photoSections[k]) = PhotoHeader(idx)}
  IN IF hits = {} THEN <<>> ELSE photoSections[Min(hits)]

\* photoSections[idx] || ''
SectionFor(photoSections, idx) ==
  IF idx <= Len(photoSections) THEN photoSections[idx] ELSE <<>>

NoMatch == [matched |-> FALSE, capture |-> <<>>]

\* section.match(/<label>(.+?)(?=<one of the other four labels>|$)/s): the
\* first place of the label that has a character after it; the capture takes
\* at least that character and stops before the next other label, or at the
\* end of the section
FieldMatch(section, label) ==
  LET starts == {p \in 1..(Len(section) - 1) : section[p] = label}
  IN IF starts = {} THEN NoMatch
     ELSE LET p == Min(starts)
              stops == {q \in (p + 2)..Len(section) : section[q] \in LabelSet \ {label}}
              q == IF stops = {} THEN Len(section) + 1 ELSE Min(stops)
          IN [matched |-> TRUE, capture |-> SubSeq(section, p + 1, q - 1)]

\* if (match && match[1]) the bold label, then match[1].replace(/\*/g, '').trim()
FieldLine(section, label) ==
  LET m == FieldMatch(section, label)
  IN IF m.matched /\ m.capture # <<>>
     THEN <<[label |-> label, text |-> Trim(StripAsterisks(m.capture))]>>
     ELSE <<>>

RECURSIVE FieldLines(_, _)
FieldLines(section, k) ==
  IF k = 0 THEN <<>>
  ELSE FieldLines(section, k - 1) \o FieldLine(section, FieldLabels[k])

\* the else branch: 'Description:' in bold, then
\* photo.description || ' No description provided.'
DescriptionLine(photo) ==
  <<[label |-> "Description:",
     text |-> IF photo.description = <<>> THEN <<" No description provided.">>
              ELSE photo.description]>>

\* one pass of report.photos.forEach in the breakdown
BreakdownEntry(report, photoSections, idx) ==
  LET section == SectionFor(photoSections, idx)
  IN [header |-> PhotoHeader(idx),
      lines |-> IF section # <<>> THEN FieldLines(section, Len(FieldLabels))
                ELSE DescriptionLine(report.photos[idx])]

Breakdown(report) ==
  LET photoSections == PhotoSections(report)
  IN [idx \in 1..Len(report.photos) |-> BreakdownEntry(report, photoSections, idx)]

(* the vertical layout of the breakdown, in tenths of a point; a line of
   text is taken to be as high as its font size *)

\* size: 'A4'
PageHeight == 8419
\* margins: { top: 50, bottom: 50 }
TopMargin == 500
BottomMargin == 500
\* doc.y > doc.page.height - 150
BreakReserve == 1500
\* addPageNumber: fontSize(10), text at y = 20
PageNumberY == 200
PageNumberFont == 100
\* the title on page 2 and on a continuation page: fontSize(16)
TitleFont == 160
\* addSectionHeader: fontSize(14)
SectionFont == 140
\* 'Photo N:' in the breakdown: fontSize(12)
HeaderFont == 120
\* a field of an entry: fontSize(11)
LineFont == 110

\* doc.y below the page number, the title with moveDown(1) and the section
\* header with moveDown(0.5): where the entries of a page begin
BreakdownStartY ==
  PageNumberY + PageNumberFont + 2 * TitleFont + SectionFont + (5 * SectionFont) \div 10

\* the lines a text takes
LinesOf(text) == 1 + Cardinality({p \in 1..Len(text) : text[p] = "\n"})

\* the height of the fields of an entry, each with moveDown(0.3)
RECURSIVE LinesHeight(_)
LinesHeight(lines) ==
  IF lines = <<>> THEN 0
  ELSE LinesOf(Head(lines).text) * LineFont + (3 * LineFont) \div 10
       + LinesHeight(Tail(lines))

\* the height of one entry: its header with moveDown(0.3), its fields, and
\* the moveDown(1) after it
EntryHeight(entry) ==
  HeaderFont + (3 * HeaderFont) \div 10 + LinesHeight(entry.lines) + LineFont

\* report.photos.forEach, by doc.y: an entry is written from doc.y on; a text
\* that reaches the bottom margin goes on at the top of a page pdfkit adds;
\* after the entry the handler starts a continuation page when doc.y is in
\* the reserve and another entry follows
RECURSIVE Paginate(_, _, _)
Paginate(entries, idx, y) ==
  IF idx > Len(entries) THEN <<>>
  ELSE LET bottom == y + EntryHeight(entries[idx])
           maxY == PageHeight - BottomMargin
           after == IF bottom > maxY THEN TopMargin + (bottom - maxY) ELSE bottom
           continued == after > PageHeight - BreakReserve /\ idx < Len(entries)
       IN <<[top |-> y, bottom |-> bottom, continued |-> continued]>>
          \o Paginate(entries, idx + 1, IF continued THEN BreakdownStartY ELSE after)

ServicesLabel == "Recommended Services:"
NotesLabel == "Additional Notes:"

NoServices == <<"No recommended services to be added.">>
NoNotes == <<"No additional project notes at this time.">>

\* text.includes(label)
Includes(text, label) == \E p \in 1..Len(text) : text[p] = label

\* text.split(label)[0]: what stands before the first place of the label
SplitFirst(text, label) ==
  LET places == {p \in 1..Len(text) : text[p] = label}
  IN IF places = {} THEN text ELSE SubSeq(text, 1, Min(places) - 1)

\* text.split(label)[1], for a text that includes the label: what stands
\* between its first place and its second one, or the end of the text
SplitSecond(text, label) ==
  LET places == {p \in 1..Len(text) : text[p] = label}
      later == places \ {Min(places)}
  IN SubSeq(text, Min(places) + 1, IF later = {} THEN Len(text) ELSE Min(later) - 1)

\* let recommendedServices, as the two ifs leave it
RecommendedServices(aiReport) ==
  IF ~(Truthy(aiReport) /\ Includes(aiReport.val, ServicesLabel)) THEN NoServices
  ELSE LET servicesSection == SplitSecond(aiReport.val, ServicesLabel)
       IN IF servicesSection # <<>> /\ Includes(servicesSection, NotesLabel)
          THEN Trim(SplitFirst(servicesSection, NotesLabel))
          ELSE IF servicesSection # <<>> THEN Trim(servicesSection)
          ELSE NoServices

\* recommendedServices.split('\n').forEach: each line trimmed, an empty one
\* skipped, the others written
RECURSIVE ServiceLines(_)
ServiceLines(text) ==
  LET first == Trim(SplitFirst(text, "\n"))
      shown == IF first = <<>> THEN <<>> ELSE <<first>>
  IN IF ~Includes(text, "\n") THEN shown
     ELSE shown \o ServiceLines(SubSeq(text, Len(SplitFirst(text, "\n")) + 2, Len(text)))

\* the text written under 'Additional Notes:'
AdditionalNotes(aiReport) ==
  IF ~(Truthy(aiReport) /\ Includes(aiReport.val, NotesLabel)) THEN NoNotes
  ELSE LET additionalNotes == Trim(SplitSecond(aiReport.val, NotesLabel))
       IN IF additionalNotes # <<>> THEN additionalNotes ELSE NoNotes

\* what generateFormattedPDF(report, outputPath) writes, given the image files
generateFormattedPDF(report, fs) ==
  [written |-> TRUE,
   title |-> ReportTitle(report),
   grid |-> FirstPageGrid(report.photos, fs),
   breakdown |-> Breakdown(report),
   additional |-> AdditionalGrid(report.photos, fs),
   layout |-> Paginate(Breakdown(report), 1, BreakdownStartY),
   services |-> ServiceLines(RecommendedServices(report.aiReport)),
   notes |-> AdditionalNotes(report.aiReport)]

\* the document of a stored report is assembled
AssemblePDF(i) ==
  /\ doc = NoDoc
  /\ i \in 1..Len(reports)
  /\ doc' = generateFormattedPDF(reports[i], disk)
  /\ documents' = documents + 1
  /\ tmp' = [tmp EXCEPT ![reports[i].id] = [by |-> 0, state |-> "whole"]]
  /\ UNCHANGED <<reports, now, pending, lastResp, writes, disk, transfers>>

\* report.aiReport.split is not a function: a truthy aiReport that is no
\* string makes the body of generateFormattedPDF throw, into its catch
Throws(report) == Truthy(report.aiReport) /\ report.aiReport.tag # "string"

\* does the promise of generateFormattedPDF resolve: its body did not throw
\* and the write stream came to 'finish', not to 'error'
Resolves(report, sink) == ~Throws(report) /\ sink = "ok"

\* a variant whose grid counter is kept from one call to the next
AssembleKeepsCount(report, fs, sink) ==
  IF ~Resolves(report, sink) THEN NoDoc
  ELSE LET out == generateFormattedPDF(report, fs)
           before == IF doc.written THEN Len(doc.grid) ELSE 0
       IN [out EXCEPT !.grid =
             [idx \in 1..Len(out.grid) |->
                [out.grid[idx] EXCEPT !.row = (idx + before - 1) \div PhotosPerRow,
                                      !.col = (idx + before - 1) % PhotosPerRow]]]

\* what generateFormattedPDF leaves behind: the document, or none when the
\* promise was rejected
Assemble(report, fs, sink) ==
  IF ~Resolves(report, sink) THEN NoDoc ELSE generateFormattedPDF(report, fs)

\* what the write stream and transporter.sendMail may do
Outcomes == {"ok", "fail"}

\* the temporary file after a PDF request: fs.createWriteStream made it, and
\* only the callback of res.download deletes it, which a rejected
\* generateFormattedPDF never reaches
AfterDownload(written) ==
  IF written THEN NoFile ELSE [by |-> 0, state |-> "partial"]

\* the temporary file after an email request: fs.unlinkSync follows the
\* awaited sendMail, so a rejection of either await leaves the file
AfterMail(written, mail) ==
  IF ~written THEN [by |-> 0, state |-> "partial"]
  ELSE IF mail = "ok" THEN NoFile
  ELSE [by |-> 0, state |-> "whole"]

\* GET /api/reports/:id/pdf
GetPdf(id, sink) ==
  LET i == FindReport(id)
  IN IF i = 0
     THEN /\ lastResp' = [op |-> "pdf", status |-> 404, body |-> Null]
          /\ UNCHANGED <<reports, now, pending, writes, disk, doc, documents, tmp, transfers>>
     ELSE LET written == Resolves(reports[i], sink)
          IN /\ documents < MaxDocuments
             /\ lastResp' = [op |-> "pdf", status |-> IF written THEN 200 ELSE 500,
                             body |-> Null]
             /\ documents' = documents + (IF written THEN 1 ELSE 0)
             /\ tmp' = [tmp EXCEPT ![reports[i].id] = AfterDownload(written)]
             /\ UNCHANGED <<reports, now, pending, writes, disk, transfers>>
             /\ doc' = Assemble(reports[i], disk, sink)

\* a variant that marks the report it mailed
PostEmailMarksSent(id, sink, mail) ==
  LET i == FindReport(id)
  IN IF i = 0
     THEN /\ lastResp' = [op |-> "email", status |-> 404, body |-> Null]
          /\ UNCHANGED <<reports, now, pending, writes, disk, doc, documents, tmp, transfers>>
     ELSE LET written == Resolves(reports[i], sink)
              sent == written /\ mail = "ok"
          IN /\ documents < MaxDocuments
             /\ lastResp' = [op |-> "email", status |-> IF sent THEN 200 ELSE 500,
                             body |-> Null]
             /\ documents' = documents + (IF written THEN 1 ELSE 0)
             /\ reports' = IF sent THEN [reports EXCEPT ![i].status = "sent"] ELSE reports
             /\ tmp' = [tmp EXCEPT ![reports[i].id] = AfterMail(written, mail)]
             /\ UNCHANGED <<now, pending, writes, disk, transfers>>
             /\ doc' = Assemble(reports[i], disk, sink)

\* POST /api/reports/:id/email
PostEmail(id, sink, mail) ==
  LET i == FindReport(id)
  IN IF i = 0
     THEN /\ lastResp' = [op |-> "email", status |-> 404, body |-> Null]
          /\ UNCHANGED <<reports, now, pending, writes, disk, doc, documents, tmp, transfers>>
     ELSE LET written == Resolves(reports[i], sink)
          IN /\ documents < MaxDocuments
             /\ lastResp' = [op |-> "email",
                             status |-> IF written /\ mail = "ok" THEN 200 ELSE 500,
                             body |-> Null]
             /\ documents' = documents + (IF written THEN 1 ELSE 0)
             /\ tmp' = [tmp EXCEPT ![reports[i].id] = AfterMail(written, mail)]
             /\ UNCHANGED <<reports, now, pending, writes, disk, transfers>>
             /\ doc' = Assemble(reports[i], disk, sink)

(* ------------- the PDF and email handlers, await by await -------------- *)

\* the other requests that are writing the file of this path
Writing(r, path) ==
  {q \in 1..MaxTransfers \ {r} : transfers[q].pc = "writing" /\ transfers[q].id = path}

\* a PDF or email request up to `await generateFormattedPDF`: the lookup,
\* then the body of generateFormattedPDF, which opens the write stream on
\* report-<id>.pdf and composes the document; a body that throws rejects at
\* once and the handler answers 500
BeginTransfer(r, op, id) ==
  LET i == FindReport(id)
  IN /\ transfers[r].pc = "idle"
     /\ IF i = 0
        THEN /\ lastResp' = [op |-> op, status |-> 404, body |-> Null]
             /\ UNCHANGED <<reports, now, pending, writes, disk, doc, documents, tmp, transfers>>
        ELSE LET path == reports[i].id
             IN IF Throws(reports[i])
                THEN /\ lastResp' = [op |-> op, status |-> 500, body |-> Null]
                     /\ tmp' = [tmp EXCEPT ![path] = [by |-> r, state |-> "partial"]]
                     /\ doc' = NoDoc
                     /\ UNCHANGED <<reports, now, pending, writes, disk, documents, transfers>>
                ELSE /\ documents < MaxDocuments
                     /\ documents' = documents + 1
                     /\ tmp' = [tmp EXCEPT ![path] =
                          [by |-> r,
                           state |-> IF Writing(r, path) = {} THEN "writing" ELSE "mixed"]]
                     /\ transfers' = [transfers EXCEPT ![r] =
                          [op |-> op, id |-> path, pc |-> "writing", handed |-> "none"]]
                     /\ UNCHANGED <<reports, now, pending, lastResp, writes, disk>>
                     /\ doc' = generateFormattedPDF(reports[i], disk)

\* what the request finds at its path when its own stream has finished
Handed(r, file) ==
  IF file.state = "none" THEN "missing"
  ELSE IF file.by = r /\ file.state = "whole" THEN "own"
  ELSE "foreign"

\* the write stream of the request ends. 'finish': the promise resolves and
\* the handler hands the path to res.download or to transporter.sendMail.
\* 'error': the promise is rejected and the handler answers 500
FinishTransfer(r, sink) ==
  LET t == transfers[r]
      file == tmp[t.id]
      mine == file.by = r /\ file.state = "writing"
  IN /\ t.pc = "writing"
     /\ IF sink = "ok"
        THEN LET left == IF mine THEN [file EXCEPT !.state = "whole"] ELSE file
             IN /\ tmp' = [tmp EXCEPT ![t.id] = left]
                /\ transfers' = [transfers EXCEPT ![r] =
                     [t EXCEPT !.pc = "sending", !.handed = Handed(r, left)]]
                /\ UNCHANGED lastResp
        ELSE /\ tmp' = [tmp EXCEPT ![t.id] =
                  IF mine THEN [file EXCEPT !.state = "partial"] ELSE file]
             /\ transfers' = [transfers EXCEPT ![r] = NoTransfer]
             /\ lastResp' = [op |-> t.op, status |-> 500, body |-> Null]
     /\ UNCHANGED <<reports, now, pending, writes, disk, doc, documents>>

\* the transfer ends. A download calls back, with an error or without, and
\* the callback deletes the file. sendMail resolves when the transport could
\* read the file and send: the handler deletes the file and answers 200;
\* when sendMail rejects the catch answers 500 and deletes nothing
EndTransfer(r, out) ==
  LET t == transfers[r]
      sent == out = "ok" /\ tmp[t.id].state # "none"
  IN /\ t.pc = "sending"
     /\ lastResp' = [op |-> t.op, status |-> IF sent THEN 200 ELSE 500, body |-> Null]
     /\ tmp' = IF t.op = "pdf" \/ sent THEN [tmp EXCEPT ![t.id] = NoFile] ELSE tmp
     /\ transfers' = [transfers EXCEPT ![r] = NoTransfer]
     /\ UNCHANGED <<reports, now, pending, writes, disk, doc, documents>>

(* --------------------------- request inputs --------------------------- *)

TextItem(d) == [type |-> "text", description |-> d, voiceFile |-> ""]

\* a well-formed multipart request with n typed notes
PlainRequest(n) ==
  [jobName |-> "job", clientName |-> "client", address |-> "addr", date |-> "d1",
   nPhotos |-> n, voices |-> {}, isArray |-> TRUE,
   photoDescriptions |-> [idx \in 1..n |-> TextItem(<<"note " \o ToString(idx)>>)]]

VoiceItem(name, d) == [type |-> "voice", description |-> d, voiceFile |-> name]

VoiceNames == {"voice1.m4a", "voice2.m4a"}

\* what speechToText gives per audio file: it threw, or the transcript
SttOutcomes == [VoiceNames -> {"fail", <<"spoken">>}]

NoStt == [name \in VoiceNames |-> "fail"]

\* requests that differ in the number of uploaded photos only
CountRequests == {PlainRequest(n) : n \in {0, 1, 2, 20, 21}}

\* requests with one job field left out, one of them with too many photos
FieldRequests ==
  {[PlainRequest(1) EXCEPT ![f] = ""] : f \in {"jobName", "clientName", "address", "date"}}
  \cup {[PlainRequest(21) EXCEPT !.jobName = ""]}

\* requests whose photoDescriptions is no array, or one of another length
ArrayRequests ==
  {[PlainRequest(n) EXCEPT !.isArray = FALSE] : n \in {1, 2}}
  \cup {[PlainRequest(n) EXCEPT !.photoDescriptions = Append(@, TextItem(<<"extra">>))] :
           n \in {1, 2}}
  \cup {[PlainRequest(2) EXCEPT !.photoDescriptions = SubSeq(@, 1, 1)]}

\* the first item of a request: typed, spoken with its audio, spoken with an
\* audio name that may not be among the uploads, spoken with no audio name
FirstItems ==
  {TextItem(<<"note">>), TextItem(<<>>),
   VoiceItem("voice1.m4a", <<>>), VoiceItem("voice1.m4a", <<"typed">>),
   VoiceItem("voice2.m4a", <<>>), VoiceItem("", <<>>), VoiceItem("", <<"typed">>)}

VoiceRequests ==
  {[PlainRequest(n) EXCEPT !.photoDescriptions[1] = item, !.voices = v] :
     n \in {1, 2}, item \in FirstItems, v \in {{}, {"voice1.m4a"}}}

CreateRequests == CountRequests \cup FieldRequests \cup ArrayRequests \cup VoiceRequests

\* ids a request may name: every clock value, one of them never stored
RequestIds == 1..(MaxReports + 1)

PatchBodies == {[aiReport |-> Str(t)] : t \in EditTexts}

(* ---------------------------- specification --------------------------- *)

Init ==
  /\ reports = <<>>
  /\ now = 1
  /\ pending = [i \in 1..MaxReports |-> 0]
  /\ lastResp = NoResp
  /\ writes = [i \in 1..MaxReports |-> "none"]
  /\ disk = IntactDisk
  /\ doc = NoDoc
  /\ documents = 0
  /\ tmp = NoFiles
  /\ transfers = NoTransfers

Next ==
  \/ Tick
  \/ PostReports(PlainRequest(2), NoStt)
  \/ \E id \in RequestIds, force \in BOOLEAN : PostAnalyze(id, force)
  \/ \E i \in 1..MaxReports, raw \in GenRaw : AnalyzeResolve(i, raw)
  \/ \E i \in 1..MaxReports : AnalyzeReject(i)
  \/ \E id \in RequestIds, body \in PatchBodies : PatchReport(id, body)

Spec == Init /\ [][Next]_vars

(* ------------------------- assembly inputs ---------------------------- *)

\* n stored photos with typed notes; the note of photo `emptyAt` is ''
NotePhotos(n, emptyAt) ==
  [idx \in 1..n |->
     [path |-> idx,
      description |-> IF idx = emptyAt THEN <<>> ELSE <<"note " \o ToString(idx)>>,
      type |-> "text",
      transcription |-> <<>>]]

\* a stored report with these photos and this aiReport
StoredReport(photos, aiReport) ==
  [id |-> 1, jobName |-> "job", clientName |-> "client", address |-> "addr",
   date |-> "d1", photos |-> photos, status |-> "draft", createdAt |-> 1,
   aiReport |-> aiReport]

Heading == <<"Kitchen Issues", "\n">>

\* the markers the sample sections are written with: in order, out of
\* order, repeated, with a gap, in lower case
WrittenMarkers == {"Photo 1:", "Photo 2:", "photo 7:"}

SectionBodies ==
  {<<" ", ProblemLabel, " ", "Cracked tile.", "\n">>,
   <<" ", PriorityLabel, " ", "High.", " ", SafetyLabel, " ", "Water damage risk.", "\n">>}

\* the text of sections with these markers and these bodies
RECURSIVE SectionText(_, _)
SectionText(markers, bodies) ==
  IF markers = <<>> THEN <<>>
  ELSE <<Head(markers)>> \o Head(bodies) \o SectionText(Tail(markers), Tail(bodies))

FieldValues == {<<>>, <<" ">>, <<" ", "w", "\n">>, <<" ", Asterisk, "w", Asterisk>>}

\* the body of a section with these labels and these values
RECURSIVE FieldBody(_, _)
FieldBody(labels, values) ==
  IF labels = <<>> THEN <<>>
  ELSE <<Head(labels)>> \o Head(values) \o FieldBody(Tail(labels), Tail(values))

\* texts with no 'Photo N:' marker
MarkerlessTexts ==
  {<<>>, RawNoSections, <<"Summary of the visit", "\n", ProblemLabel, " ", "w">>}

\* the image files of n photos: all in place, the first gone, the last gone
\* and the first not decodable
DiskStates(n) ==
  {IntactDisk, [missing |-> {1}, unreadable |-> {}], [missing |-> {n}, unreadable |-> {1}]}

\* a store that holds this one report, in a state creation, analysis and
\* edits lead to, and its image files
StartPDF(report, fs) ==
  /\ reports = <<report>>
  /\ now = 2
  /\ pending = [i \in 1..MaxReports |-> 0]
  /\ lastResp = NoResp
  /\ writes = [i \in 1..MaxReports |->
                 IF i = 1 /\ report.aiReport # Null THEN "edit" ELSE "none"]
  /\ disk = fs
  /\ doc = NoDoc
  /\ documents = 0
  /\ tmp = NoFiles
  /\ transfers = NoTransfers

\* reports of up to MaxGridPhotos photos, with image files that cannot be drawn
GridInputs ==
  \E n \in 1..MaxGridPhotos, a \in {Null} \cup GenResults, fs \in DiskStates(MaxGridPhotos) :
    StartPDF(StoredReport(NotePhotos(n, 0), a), fs)

\* texts of up to MaxSections sections, each with any marker
SectionInputs ==
  \E k \in 0..MaxSections, n \in 1..MaxTextPhotos, e \in {0, 1} :
    \E markers \in [1..k -> WrittenMarkers], bodies \in [1..k -> SectionBodies] :
      StartPDF(StoredReport(NotePhotos(n, e), Str(Heading \o SectionText(markers, bodies))),
               IntactDisk)

\* texts of one section with up to MaxFields distinct labels in any order
FieldInputs ==
  \E k \in 0..MaxFields, n \in 1..2 :
    \E labels \in [1..k -> LabelSet], values \in [1..k -> FieldValues] :
      /\ \A i, j \in 1..k : labels[i] = labels[j] => i = j
      /\ StartPDF(StoredReport(NotePhotos(n, 0),
                    Str(Heading \o <<"Photo 1:", "\n">> \o FieldBody(labels, values))),
                  IntactDisk)

\* texts without a marker, and no text
MarkerlessInputs ==
  \E n \in 1..MaxTextPhotos, e \in {0, 1}, a \in {Null} \cup {Str(t) : t \in MarkerlessTexts} :
    StartPDF(StoredReport(NotePhotos(n, e), a), IntactDisk)

InitPDF == GridInputs \/ SectionInputs \/ FieldInputs \/ MarkerlessInputs

NextPDF == \E i \in 1..MaxReports : AssemblePDF(i)

SpecPDF == InitPDF /\ [][NextPDF]_vars

\* PDF and email requests for one stored report that nothing changes
InitAssemble == GridInputs \/ MarkerlessInputs

NextAssemble ==
  \/ \E id \in RequestIds, sink \in Outcomes : GetPdf(id, sink)
  \/ \E id \in RequestIds, sink \in Outcomes, mail \in Outcomes : PostEmail(id, sink, mail)

SpecAssemble == InitAssemble /\ [][NextAssemble]_vars

\* a photos array a client may send: the two photos of a report the other
\* way round, one with another description
EditedPhotos ==
  <<NotePhotos(2, 0)[2], [NotePhotos(2, 0)[1] EXCEPT !.description = <<"changed">>]>>

\* PATCH bodies that name other fields than the text, or give it a number
StoreBodies ==
  {[aiReport |-> Num(<<"42">>)], [photos |-> <<>>], [photos |-> EditedPhotos], [id |-> 1]}

\* the store under creation, edits of every field and assembly requests
NextStore ==
  \/ Tick
  \/ PostReports(PlainRequest(2), NoStt)
  \/ \E id \in RequestIds, body \in StoreBodies : PatchReport(id, body)
  \/ \E id \in RequestIds, sink \in Outcomes : GetPdf(id, sink)
  \/ \E id \in RequestIds, sink \in Outcomes, mail \in Outcomes : PostEmail(id, sink, mail)

SpecStore == Init /\ [][NextStore]_vars

\* the store under creation, edits of the text and assembly requests
NextRead ==
  \/ Tick
  \/ PostReports(PlainRequest(2), NoStt)
  \/ \E id \in RequestIds, body \in PatchBodies \cup {[aiReport |-> Num(<<"42">>)]} :
        PatchReport(id, body)
  \/ \E id \in RequestIds, sink \in Outcomes : GetPdf(id, sink)
  \/ \E id \in RequestIds, sink \in Outcomes, mail \in Outcomes : PostEmail(id, sink, mail)

SpecRead == Init /\ [][NextRead]_vars

\* the store under creation requests of every shape
NextCreate ==
  \/ Tick
  \/ \E req \in CreateRequests, stt \in SttOutcomes : PostReports(req, stt)

SpecCreate == Init /\ [][NextCreate]_vars

\* the store under creation requests that differ in their job fields and in
\* the number of their photos
JobRequests == CountRequests \cup FieldRequests

NextFields ==
  \/ Tick
  \/ \E req \in JobRequests : PostReports(req, NoStt)

SpecFields == Init /\ [][NextFields]_vars

\* how a text may begin: with a heading line, with none, with a short one,
\* with a blank line before it, with bold markup, with a marker in it
HeadLines ==
  {Heading, <<>>, <<"Roof", "\n">>, <<"\n", "Kitchen Issues", "\n">>,
   <<Asterisk, Asterisk, "Kitchen Issues", Asterisk, Asterisk, "\n">>,
   <<"Photo 3:", " ", "Overview of the kitchen", "\n">>}

\* texts of up to two sections after each of these beginnings, and no text
HeadingInputs ==
  \/ \E n \in 1..2 : StartPDF(StoredReport(NotePhotos(n, 0), Null), IntactDisk)
  \/ \E head \in HeadLines, k \in 0..2, n \in 1..2 :
       \E markers \in [1..k -> WrittenMarkers], bodies \in [1..k -> SectionBodies] :
         StartPDF(StoredReport(NotePhotos(n, 0), Str(head \o SectionText(markers, bodies))),
                  IntactDisk)

SpecHeading == HeadingInputs /\ [][NextPDF]_vars

\* what may follow 'Recommended Services:' or 'Additional Notes:': nothing,
\* a line break, one line, lines with a blank one between them
ClosingValues ==
  {<<>>, <<"\n">>, <<" ", "- Seal the grout.", "\n">>,
   <<" ", "Call a plumber.", "\n", " ", "\n", "- Check the valves.">>}

\* texts that end with none, one or both of the two closing labels, in
\* either order, and no text
ClosingInputs ==
  \/ \E n \in 1..2 : StartPDF(StoredReport(NotePhotos(n, 0), Null), IntactDisk)
  \/ \E k \in 0..2, n \in 1..2 :
       \E labels \in [1..k -> {ServicesLabel, NotesLabel}], values \in [1..k -> ClosingValues] :
         /\ \A i, j \in 1..k : labels[i] = labels[j] => i = j
         /\ StartPDF(StoredReport(NotePhotos(n, 0),
                       Str(Heading \o <<"Photo 1:", " ", ProblemLabel, " ", "Cracked tile.", "\n">>
                           \o FieldBody(labels, values))),
                     IntactDisk)

SpecClosing == ClosingInputs /\ [][NextPDF]_vars

\* a note of many lines
LongNote == [p \in 1..39 |-> IF p % 2 = 1 THEN "a line of the note" ELSE "\n"]

\* n photos, those at the given places with a long note
LayoutPhotos(n, longAt) ==
  [idx \in 1..n |->
     [NotePhotos(n, 0)[idx] EXCEPT !.description = IF idx \in longAt THEN LongNote ELSE @]]

\* reports of 1 to 20 photos whose text has a section for the first photo
\* only, with a short or a long value, and short or long notes after it
LayoutInputs ==
  \E n \in 1..MaxCount, longAt \in SUBSET {2, 3}, value \in {<<"Cracked tile.">>, LongNote} :
    StartPDF(StoredReport(LayoutPhotos(n, longAt),
                          Str(Heading \o <<"Photo 1:", " ", ProblemLabel, " ">> \o value)),
             IntactDisk)

SpecLayout == LayoutInputs /\ [][NextPDF]_vars

\* one stored report under every operation that names a report by its id
InitLookup == StartPDF(StoredReport(NotePhotos(2, 0), Null), IntactDisk)

NextLookup ==
  \/ \E id \in RequestIds : GetReport(id)
  \/ \E id \in RequestIds, force \in BOOLEAN : PostAnalyze(id, force)
  \/ \E i \in 1..MaxReports, raw \in GenRaw : AnalyzeResolve(i, raw)
  \/ \E i \in 1..MaxReports : AnalyzeReject(i)
  \/ \E id \in RequestIds : PatchReport(id, [aiReport |-> Str(<<>>)])
  \/ \E id \in RequestIds, sink \in Outcomes : GetPdf(id, sink)
  \/ \E id \in RequestIds, sink \in Outcomes, mail \in Outcomes : PostEmail(id, sink, mail)

SpecLookup == InitLookup /\ [][NextLookup]_vars

\* the store under analyze requests without the force flag, as the app sends
\* them, and under edits of the text
NextUnforced ==
  \/ Tick
  \/ PostReports(PlainRequest(2), NoStt)
  \/ \E id \in RequestIds : PostAnalyze(id, FALSE)
  \/ \E i \in 1..MaxReports, raw \in GenRaw : AnalyzeResolve(i, raw)
  \/ \E i \in 1..MaxReports : AnalyzeReject(i)
  \/ \E id \in RequestIds, body \in PatchBodies : PatchReport(id, body)

SpecUnforced == Init /\ [][NextUnforced]_vars

\* one stored report under PDF and email requests that overlap
NextTransfer ==
  \/ \E r \in 1..MaxTransfers, op \in {"pdf", "email"}, id \in RequestIds :
        BeginTransfer(r, op, id)
  \/ \E r \in 1..MaxTransfers, sink \in Outcomes : FinishTransfer(r, sink)
  \/ \E r \in 1..MaxTransfers, out \in Outcomes : EndTransfer(r, out)
  \/ \E id \in RequestIds, body \in PatchBodies \cup {[aiReport |-> Num(<<"42">>)]} :
        PatchReport(id, body)

SpecTransfer == InitLookup /\ [][NextTransfer]_vars

\* PATCH bodies with one field, with several, with a key no report has, and
\* with a key every object inherits
FrameBodies ==
  {[aiReport |-> Str(EditThreeSections)],
   [jobName |-> "renamed", status |-> "sent"],
   [colour |-> "red"],
   [aiReport |-> Str(<<>>), colour |-> "red"],
   [toString |-> "red"]}

\* the store under creation and edits of any field
NextFrame ==
  \/ Tick
  \/ PostReports(PlainRequest(2), NoStt)
  \/ \E id \in RequestIds, body \in FrameBodies : PatchReport(id, body)

SpecFrame == Init /\ [][NextFrame]_vars

(* ------------------------------ claims -------------------------------- *)

Stored == 1..Len(reports)

EditValues == {Str(t) : t \in EditTexts}

AnalyzeFailed == [op |-> "analyze", status |-> 500, body |-> Null]

AnalyzeSucceeded(g) == [op |-> "analyze", status |-> 200, body |-> g]

\* C1: when generateReportContent throws, the analyze request is answered
\* with the failure (500) and no report changes; and whenever a generator
\* call of an analyze request settles, the store either stays as it was or
\* one report's aiReport becomes one whole generator result, which is also
\* what the caller is sent. The handler's first half changes no report.
C1_AnalyzeFailureKeepsText ==
  [][ /\ \A i \in 1..MaxReports :
          AnalyzeReject(i) => lastResp' = AnalyzeFailed /\ reports' = reports
      /\ (\E i \in 1..MaxReports : pending'[i] < pending[i]) =>
           \/ lastResp' = AnalyzeFailed /\ reports' = reports
           \/ \E i \in Stored, g \in GenResults :
                /\ pending'[i] < pending[i]
                /\ lastResp' = AnalyzeSucceeded(g)
                /\ reports' = [reports EXCEPT ![i].aiReport = g]
      /\ (\E i \in 1..MaxReports : pending'[i] > pending[i]) => reports' = reports
    ]_vars

\* C1's case: a re-analysis failed and the report still holds the text of
\* the earlier analysis
C1_Witness ==
  /\ lastResp = AnalyzeFailed
  /\ Len(reports) = 1
  /\ reports[1].aiReport \in GenResults

\* C2 as claimed: on a report whose aiReport is not null, an analyze request
\* without force is answered with the stored text, starts no generator call
\* and changes no report (the empty string included); with force it starts
\* a generator call.
C2_Claim ==
  [][ \A id \in RequestIds :
        LET i == FindReport(id)
        IN (i # 0 /\ reports[i].aiReport # Null) =>
             /\ PostAnalyze(id, FALSE) =>
                  /\ lastResp' = AnalyzeSucceeded(reports[i].aiReport)
                  /\ pending' = pending
                  /\ reports' = reports
             /\ PostAnalyze(id, TRUE) => pending'[i] = pending[i] + 1
    ]_vars

\* C3: a PATCH that carries aiReport and names a stored report is answered
\* 200 and leaves exactly the supplied value in that report's aiReport,
\* whatever the report held before (null, an analysis, an edit), whether or
\* not an analysis is in flight, and however many 'Photo N:' markers the
\* value has; and such a PATCH can be taken in every state.
C3_EditStoredVerbatim ==
  /\ [](\A i \in Stored, body \in PatchBodies : ENABLED PatchReport(reports[i].id, body))
  /\ [][ \A id \in RequestIds, body \in PatchBodies :
          (FindReport(id) # 0 /\ PatchReport(id, body)) =>
             /\ reports'[FindReport(id)].aiReport = body.aiReport
             /\ lastResp'.op = "patch" /\ lastResp'.status = 200
      ]_vars

\* C3's case: a report with two photos holds an edit with three sections
C3_Witness ==
  \E i \in Stored :
    /\ reports[i].aiReport = Str(EditThreeSections)
    /\ Len(reports[i].photos) = 2
    /\ lastResp.op = "patch" /\ lastResp.status = 200

\* C4: the stored aiReport is the value of the last write: an edit's value
\* after an edit, also one accepted while an analysis was in flight, and a
\* generator result after an analysis completed, also one that completed
\* after such an edit; while an analysis is in flight both the edit and the
\* completion can be taken.
C4_LastWriterWins ==
  \A i \in Stored :
    /\ writes[i] = "none" => reports[i].aiReport = Null
    /\ writes[i] \in {"edit", "edit during analyze"} => reports[i].aiReport \in EditValues
    /\ writes[i] \in {"analyze", "analyze over edit"} => reports[i].aiReport \in GenResults
    /\ pending[i] > 0 =>
         /\ \A body \in PatchBodies : FindReport(reports[i].id) = i =>
               ENABLED PatchReport(reports[i].id, body)
         /\ \A raw \in GenRaw : ENABLED AnalyzeResolve(i, raw)

\* C4's case: an edit was accepted while the generator call was in flight
\* and the completed analysis has replaced it
C4_Witness ==
  \E i \in Stored :
    /\ writes[i] = "analyze over edit"
    /\ lastResp = AnalyzeSucceeded(reports[i].aiReport)

\* the job fields the handler requires, and a well-formed description array
WellFormed(req) ==
  /\ req.jobName # "" /\ req.clientName # "" /\ req.address # ""
  /\ req.isArray /\ Len(req.photoDescriptions) = req.nPhotos
  /\ ~MissingAudio(req)

\* C5 as claimed: a creation request with 0 or 21 photos is answered 400 and
\* stores nothing; a well-formed one with 1 or 20 photos is answered 201 and
\* stores exactly one more report.
C5_Claim ==
  [][ \A req \in CreateRequests, stt \in SttOutcomes :
        PostReports(req, stt) =>
          /\ req.nPhotos \in {0, 21} =>
                lastResp'.status = 400 /\ reports' = reports
          /\ (req.nPhotos \in {1, 20} /\ WellFormed(req)) =>
                lastResp'.status = 201 /\ Len(reports') = Len(reports) + 1
    ]_vars

(* ------------------------ claims on the document ------------------------ *)

\* the report the document was assembled from
Assembled == doc.written /\ Len(reports) = 1

\* the sections the text of the assembled report yields
Parsed == ParseSections(reports[1].aiReport)

\* the texts a breakdown entry shows under a label
Shown(lines, label) == {lines[j].text : j \in {j \in 1..Len(lines) : lines[j].label = label}}

\* C6 as claimed: when the text of the report has no 'Photo N:' marker, the
\* breakdown entry of every photo shows that photo's own description.
C6_Claim ==
  (Assembled /\ reports[1].aiReport # Null /\ Parsed = <<>>) =>
     \A idx \in 1..Len(reports[1].photos) :
        LET description == reports[1].photos[idx].description
            lines == doc.breakdown[idx].lines
        IN description # <<>> => \E j \in 1..Len(lines) : lines[j].text = description

\* the text yields at least one section and fewer sections than photos
Underflow == Assembled /\ Len(Parsed) >= 1 /\ Len(Parsed) < Len(reports[1].photos)

CellOf(number) ==
  IF number <= FirstPagePhotos THEN doc.grid[number]
  ELSE doc.additional[number - FirstPagePhotos]

\* C8: whatever the text of the report, the document has one grid cell per
\* photo, the first nine on the first grid and the others on the second,
\* both in the order of the photos, three a row; the cell of the N-th photo
\* is captioned 'Photo N' and holds that photo's image (or the placeholder
\* of a file that cannot be drawn), and the N-th breakdown entry is headed
\* 'Photo N:'.
C8_PhotoOrder ==
  Assembled =>
    LET photos == reports[1].photos
        n == Len(photos)
    IN /\ Len(doc.grid) = (IF n < 9 THEN n ELSE 9)
       /\ Len(doc.additional) = n - Len(doc.grid)
       /\ Len(doc.breakdown) = n
       /\ \A number \in 1..n :
            LET cell == CellOf(number)
                place == IF number <= 9 THEN number - 1 ELSE number - 10
                drawable == photos[number].path \notin (disk.missing \cup disk.unreadable)
            IN /\ cell.caption = "Photo " \o ToString(number)
               /\ cell.row * 3 + cell.col = place /\ cell.col \in 0..2
               /\ IF drawable
                  THEN cell.content = [kind |-> "image", path |-> photos[number].path]
                  ELSE cell.content.kind = "placeholder"
               /\ doc.breakdown[number].header = "Photo " \o ToString(number) \o ":"

\* C8's case: a document of ten photos, the tenth on the second grid, one
\* image file gone
C8_Witness ==
  /\ Assembled
  /\ Len(doc.grid) = 9 /\ Len(doc.additional) = 1
  /\ doc.additional[1].caption = "Photo 10"
  /\ doc.grid[1].content.kind = "placeholder"

\* the places of the 'Photo N:' markers of a text
MarkerPlaces(text) == {p \in 1..Len(text) : text[p] \in PhotoMarkers}

\* C9: the breakdown of the document does not depend on the number written
\* in any 'Photo N:' marker: writing any other number in any one marker of
\* the text leaves every entry as it is, and the entry of the k-th photo
\* shows the fields of the k-th section of the text.
C9_PositionalSections ==
  (Assembled /\ Truthy(reports[1].aiReport)) =>
    LET text == reports[1].aiReport.val
    IN /\ \A p \in MarkerPlaces(text), m \in PhotoMarkers :
            generateFormattedPDF(
              [reports[1] EXCEPT !.aiReport = Str([text EXCEPT ![p] = m])], disk).breakdown
              = doc.breakdown
       /\ \A k \in 1..Len(reports[1].photos) :
            k <= Len(Parsed) =>
              doc.breakdown[k].lines = FieldLines(Parsed[k], Len(FieldLabels))

\* C9's case: a document of two photos assembled from a text whose first
\* section is written 'Photo 2:' and whose second is written 'Photo 1:',
\* with different fields
C9_Witness ==
  /\ Assembled /\ Len(reports[1].photos) = 2 /\ Len(Parsed) = 2
  /\ Head(Parsed[1]) = "Photo 2:" /\ Head(Parsed[2]) = "Photo 1:"
  /\ Shown(doc.breakdown[1].lines, ProblemLabel) = {<<"Cracked tile.">>}
  /\ Shown(doc.breakdown[2].lines, PriorityLabel) = {<<"High.">>}

\* the place of a label in a section and of the next label after a place
LabelPlace(section, label) == Min({p \in 1..Len(section) : section[p] = label})

NextLabelPlace(section, p) ==
  Min({q \in (p + 1)..Len(section) : section[q] \in LabelSet} \cup {Len(section) + 1})

\* the value a section gives a label: what stands between it and the next label
OwnValue(section, label) ==
  LET p == LabelPlace(section, label)
  IN Trim(StripAsterisks(SubSeq(section, p + 1, NextLabelPlace(section, p) - 1)))

\* a text without a label and its value
RemoveField(text, label) ==
  LET p == LabelPlace(text, label)
  IN SubSeq(text, 1, p - 1) \o SubSeq(text, NextLabelPlace(text, p), Len(text))

Labels(text) == {text[p] : p \in 1..Len(text)} \cap LabelSet

\* the text has one section, each label at most once and none before the section
OneSection ==
  /\ Assembled /\ Len(Parsed) = 1
  /\ LET text == reports[1].aiReport.val
     IN \A label \in LabelSet :
          /\ Cardinality({p \in 1..Len(text) : text[p] = label}) <= 1
          /\ label \in Labels(text) => label \in Labels(Parsed[1])

\* C10 as claimed: from a section with any of the five labels in any order,
\* a label that does not occur is shown nowhere, a label that occurs is shown
\* with its own value (a label with an empty value may be left out), and
\* taking one label and its value out of the section changes the value shown
\* for no other label.
C10_Claim ==
  OneSection =>
    LET text == reports[1].aiReport.val
        lines == doc.breakdown[1].lines
    IN \A label \in LabelSet :
         IF label \notin Labels(text) THEN Shown(lines, label) = {}
         ELSE /\ IF OwnValue(Parsed[1], label) = <<>> THEN Shown(lines, label) \subseteq {<<>>}
                 ELSE Shown(lines, label) = {OwnValue(Parsed[1], label)}
              /\ LET less == generateFormattedPDF(
                               [reports[1] EXCEPT !.aiReport = Str(RemoveField(text, label))],
                               disk).breakdown[1].lines
                 IN \A other \in LabelSet \ {label} :
                      Shown(less, other) \ {<<>>} = Shown(lines, other) \ {<<>>}

(* --------------------- claims on the assembly requests ------------------ *)

\* a PDF or an email request for the report in place i got its document written
Reassembled(i) ==
  \/ \E sink \in Outcomes : GetPdf(reports[i].id, sink)
  \/ \E sink \in Outcomes, mail \in Outcomes : PostEmail(reports[i].id, sink, mail)

C12_AssemblyReadsOnly ==
  [][ \A id \in RequestIds, sink \in Outcomes, mail \in Outcomes :
        (GetPdf(id, sink) \/ PostEmail(id, sink, mail)) =>
           /\ reports' = reports
           /\ lastResp'.op \in {"pdf", "email"}
    ]_vars

\* C12's case: of two stored reports with the same id the first was edited
\* and then mailed
C12_Witness ==
  /\ Len(reports) = 2 /\ reports[1].id = reports[2].id
  /\ reports[1].aiReport = Str(EditThreeSections) /\ reports[2].aiReport = Null
  /\ lastResp = [op |-> "email", status |-> 200, body |-> Null]
  /\ doc.written /\ Len(doc.breakdown) = 2

\* C12's other case: the assembly failed on a text that is a number
C12_WitnessFailed ==
  /\ Len(reports) = 1 /\ reports[1].aiReport = Num(<<"42">>)
  /\ lastResp = [op |-> "pdf", status |-> 500, body |-> Null]
  /\ ~doc.written

\* the cell of the N-th photo in a document
CellIn(document, number) ==
  IF number <= FirstPagePhotos THEN document.grid[number]
  ELSE document.additional[number - FirstPagePhotos]

\* C13: when image files are gone at assembly time the document is still
\* written; the cell of a photo whose file is gone holds the placeholder
\* 'Photo not available', the cell of a photo whose file is there and cannot
\* be drawn holds the other placeholder, 'Error loading photo'; every other
\* cell, every caption and place, the title and the breakdown are those of
\* the document assembled with all files in place.
C13_MissingFilePlaceholder ==
  Assembled =>
    LET photos == reports[1].photos
        intact == generateFormattedPDF(reports[1], IntactDisk)
    IN /\ doc.title = intact.title /\ doc.breakdown = intact.breakdown
       /\ Len(doc.grid) = Len(intact.grid) /\ Len(doc.additional) = Len(intact.additional)
       /\ \A number \in 1..Len(photos) :
            LET cell == CellIn(doc, number)
                path == photos[number].path
            IN IF path \in disk.missing
               THEN cell = [CellIn(intact, number) EXCEPT !.content =
                              [kind |-> "placeholder", text |-> "Photo not available"]]
               ELSE IF path \in disk.unreadable
               THEN cell = [CellIn(intact, number) EXCEPT !.content =
                              [kind |-> "placeholder", text |-> "Error loading photo"]]
               ELSE cell = CellIn(intact, number)

\* C13's case: of ten photos the file of the tenth is gone and the file of
\* the first does not decode
C13_Witness ==
  /\ Assembled /\ Len(reports[1].photos) = 10
  /\ disk.missing = {10} /\ disk.unreadable = {1}
  /\ doc.additional[1].content = [kind |-> "placeholder", text |-> "Photo not available"]
  /\ doc.grid[1].content = [kind |-> "placeholder", text |-> "Error loading photo"]
  /\ doc.grid[2].content = [kind |-> "image", path |-> 2]

(* ------------------------ claims on the whole store --------------------- *)

\* C14 as claimed: in every state creation and PATCH lead to, a PDF
\* request for a stored report whose write stream does not fail gets its
\* document written and is answered 200.
C14_Claim ==
  [][ \A id \in RequestIds :
        (FindReport(id) # 0 /\ GetPdf(id, "ok")) =>
           doc'.written /\ lastResp'.status = 200
    ]_vars

\* C15 as claimed: every stored report has between 1 and 20 photos.
C15_Claim ==
  \A i \in Stored : Len(reports[i].photos) >= 1 /\ Len(reports[i].photos) <= 20

\* C16 as claimed: no step changes the photos of a stored report: their
\* order and the description of each stay as they were created.
C16_Claim ==
  [][ \A i \in Stored :
        /\ Len(reports'[i].photos) = Len(reports[i].photos)
        /\ \A k \in 1..Len(reports[i].photos) :
              /\ reports'[i].photos[k].path = reports[i].photos[k].path
              /\ reports'[i].photos[k].description = reports[i].photos[k].description
    ]_vars

\* C17 as claimed: no step changes the id of a stored report.
C17_Claim ==
  [][ \A i \in Stored : reports'[i].id = reports[i].id ]_vars

\* C18 as claimed: no two stored reports have the same id, so the lookup by
\* id finds every stored report.
C18_Claim ==
  \A i \in Stored :
    /\ \A j \in Stored : reports[i].id = reports[j].id => i = j
    /\ FindReport(reports[i].id) = i

(* --------------------------- claims on creation ------------------------- *)

\* one of the three job fields the handler tests is missing or empty
JobFieldMissing(req) == req.jobName = "" \/ req.clientName = "" \/ req.address = ""

VoiceUnpaired(req) ==
  \E idx \in 1..Len(req.photoDescriptions) :
    LET desc == req.photoDescriptions[idx]
    IN ItemType(desc) = "voice" /\ (desc.voiceFile = "" \/ desc.voiceFile \notin req.voices)

\* C20 as claimed: a creation request with a voice item that has no paired
\* audio file is answered with the validation error 400 and stores nothing.
C20_Claim ==
  [][ \A req \in CreateRequests, stt \in SttOutcomes :
        (PostReports(req, stt) /\ VoiceUnpaired(req)) =>
           lastResp'.status = 400 /\ reports' = reports
    ]_vars

\* C21 as claimed: a creation request that is well formed is answered 201
\* also when the transcription of a voice item fails, and the stored
\* description of such an item is the empty string, whatever description the
\* client sent with it.
C21_Claim ==
  [][ \A req \in CreateRequests, stt \in SttOutcomes :
        (PostReports(req, stt) /\ WellFormed(req) /\ req.nPhotos \in 1..20) =>
           /\ lastResp'.status = 201
           /\ \A idx \in 1..req.nPhotos :
                 LET desc == req.photoDescriptions[idx]
                 IN (ItemType(desc) = "voice" /\ desc.voiceFile \in req.voices
                       /\ stt[desc.voiceFile] = "fail") =>
                      reports'[Len(reports')].photos[idx].description = <<>>
    ]_vars

(* ----------------------- claims on the lookup by id --------------------- *)

\* the ids of the stored reports
StoredIds == {reports[i].id : i \in Stored}

\* a request of one of the five per-report operations for this id is served
Served(id) ==
  \/ GetReport(id)
  \/ \E force \in BOOLEAN : PostAnalyze(id, force)
  \/ PatchReport(id, [aiReport |-> Str(<<>>)])
  \/ \E sink \in Outcomes : GetPdf(id, sink)
  \/ \E sink \in Outcomes, mail \in Outcomes : PostEmail(id, sink, mail)

\* C22: get, analyze, PATCH, PDF and email on an id that no stored report has
\* answer 404, leave the store as it was, start no generator call, assemble
\* no document, write no temporary file and reach no mail transport.
C22_UnknownIdNotFound ==
  [][ \A id \in RequestIds :
        (id \notin StoredIds /\ Served(id)) =>
           /\ lastResp'.status = 404
           /\ lastResp'.body = Null
           /\ UNCHANGED <<reports, now, pending, writes, disk, doc, documents, tmp, transfers>>
    ]_vars

\* an email request for an id that is not stored, while others are
C22_Witness ==
  /\ lastResp = [op |-> "email", status |-> 404, body |-> Null]
  /\ Len(reports) >= 1
  /\ NumPending >= 1

(* ------------------ claims on the heading and the sections -------------- *)

\* where the first non-empty line of a text ends: at its line break, or at
\* the end of the text; 0 when the text has no such line
HeadingEnd(text) ==
  LET inked == {p \in 1..Len(text) : text[p] \notin Whitespace}
  IN IF inked = {} THEN 0
     ELSE LET breaks == {p \in Min(inked)..Len(text) : text[p] = "\n"}
          IN IF breaks = {} THEN Len(text) ELSE Min(breaks)

\* the first non-empty line of a text
HeadingLine(text) ==
  LET inked == {p \in 1..Len(text) : text[p] \notin Whitespace}
  IN IF inked = {} THEN <<>> ELSE SubSeq(text, Min(inked), HeadingEnd(text))

\* the text after the heading line
NarrativeBody(text) == SubSeq(text, HeadingEnd(text) + 1, Len(text))

\* the segments of a text from each marker to the next one or to the end
Segments(text) ==
  LET places == Sorted(MarkerPlaces(text))
  IN [i \in 1..Len(places) |->
        Trim(SubSeq(text, places[i],
                    IF i < Len(places) THEN places[i + 1] - 1 ELSE Len(text)))]

\* C23 as claimed: the parsed sections are the segments of the text after the
\* heading line, one for each marker there, from that marker to the next one
\* or to the end; a marker in the heading line starts no section, and no
\* marker gives no section.
C23_Claim ==
  Assembled =>
    LET a == reports[1].aiReport
        body == IF a = Null THEN <<>> ELSE NarrativeBody(a.val)
    IN /\ Parsed = Segments(body)
       /\ Len(Parsed) = Cardinality(MarkerPlaces(body))

\* C25 as claimed: the document's heading is 'Site Inspection Report' when the
\* text is null or empty, and otherwise the first non-empty line of the text
\* without asterisks and surrounding whitespace, however short it is.
C25_Claim ==
  Assembled =>
    LET a == reports[1].aiReport
    IN doc.title = IF a = Null \/ a.val = <<>> THEN <<"Site Inspection Report">>
                   ELSE Trim(StripAsterisks(HeadingLine(a.val)))

\* what stands between the first place of a label in a section and the next
\* place of one of the other labels, or the end of the section
UpToOtherLabel(section, label) ==
  LET p == LabelPlace(section, label)
      stops == {q \in (p + 1)..Len(section) : section[q] \in LabelSet \ {label}}
  IN SubSeq(section, p + 1, IF stops = {} THEN Len(section) ELSE Min(stops) - 1)

\* C24 as claimed: for every section and every label in it, the value shown
\* is the text from that label to the next other label or to the end of the
\* section, without asterisks and surrounding whitespace, so that no value
\* shown holds a label, also when a label directly follows another one.
C24_Claim ==
  Assembled =>
    \A idx \in 1..Min({Len(Parsed), Len(doc.breakdown)}) :
      LET lines == doc.breakdown[idx].lines
      IN /\ \A k \in 1..Len(lines) : Labels(lines[k].text) = {}
         /\ \A label \in Labels(Parsed[idx]) :
               Shown(lines, label) \subseteq
                 {Trim(StripAsterisks(UpToOtherLabel(Parsed[idx], label)))}

(* ------------------ claims on the services and notes page --------------- *)

\* the text that follows the first place of a label, up to the first place
\* of a closing label after it, or up to the end
Following(text, label, closing) ==
  LET p == Min({q \in 1..Len(text) : text[q] = label})
      stops == {q \in (p + 1)..Len(text) : text[q] \in closing}
  IN SubSeq(text, p + 1, IF stops = {} THEN Len(text) ELSE Min(stops) - 1)

\* the lexemes of the lines written, in order
RECURSIVE Flat(_)
Flat(lines) == IF lines = <<>> THEN <<>> ELSE Head(lines) \o Flat(Tail(lines))

\* a text without its whitespace
Inked(text) == SelectSeq(text, LAMBDA x : x \notin Whitespace)

\* C26 as claimed: the services text is what follows 'Recommended Services:'
\* up to 'Additional Notes:' or the end, the notes text is what follows
\* 'Additional Notes:'; a text without the label, and no text, give the
\* literal fallback; and both sections always show some text (so a label
\* that nothing follows may show the fallback as well).
C26_Claim ==
  Assembled =>
    LET a == reports[1].aiReport
        text == IF a = Null THEN <<>> ELSE a.val
        services == IF Includes(text, ServicesLabel)
                    THEN Inked(Following(text, ServicesLabel, {NotesLabel})) ELSE <<>>
        notes == IF Includes(text, NotesLabel)
                 THEN Inked(Following(text, NotesLabel, {})) ELSE <<>>
    IN /\ services # <<>> => Inked(Flat(doc.services)) = services
       /\ ~Includes(text, ServicesLabel) => doc.services = <<NoServices>>
       /\ notes # <<>> => Inked(doc.notes) = notes
       /\ ~Includes(text, NotesLabel) => doc.notes = NoNotes
       /\ doc.services # <<>>
       /\ doc.notes # <<>>

(* ------------------------ claims on the page breaks --------------------- *)

C28_Claim ==
  [][ \A i \in Stored :
        (lastResp = AnalyzeSucceeded(reports[i].aiReport) /\ lastResp'.op # "patch") =>
           /\ reports'[i].aiReport = reports[i].aiReport
           /\ pending'[i] <= pending[i]
    ]_vars

\* the requests that are under way on the file of this path
UnderWay(path) ==
  {r \in 1..MaxTransfers : transfers[r].pc # "idle" /\ transfers[r].id = path}

\* C29 as claimed: the file an email request hands to the mail transport is
\* there and is what that request itself wrote, whatever other PDF and email
\* requests for the report do; and when no request for a report is under way
\* any more, its temporary file is gone.
C29_Claim ==
  /\ \A r \in 1..MaxTransfers :
        (transfers[r].op = "email" /\ transfers[r].pc = "sending") =>
           transfers[r].handed = "own"
  /\ \A path \in Paths : UnderWay(path) = {} => tmp[path] = NoFile

(* --------------------------- claims on PATCH ---------------------------- *)

\* the field names a report is created with
ReportFields == DOMAIN NewReport(PlainRequest(2), NoStt)

\* C30 as claimed: a PATCH of a stored report gives each field of the report
\* that the body names the value the body has for it, keeps every other
\* field of the report and every other report, and adds no field: every
\* stored report has the fields it was created with, and no other.
C30_Claim ==
  [][ \A id \in RequestIds, body \in FrameBodies :
        (FindReport(id) # 0 /\ PatchReport(id, body)) =>
           LET i == FindReport(id)
           IN /\ Len(reports') = Len(reports)
              /\ \A j \in Stored \ {i} : reports'[j] = reports[j]
              /\ DOMAIN reports'[i] = ReportFields
              /\ \A key \in DOMAIN reports[i] :
                    reports'[i][key] = IF key \in DOMAIN body THEN body[key]
                                       ELSE reports[i][key]
    ]_vars

====
